---------------------------- MODULE Spec2Model ----------------------------
(***************************************************************************)
(* Model of the Airbnb listings API (src/main.py): GET /listings with      *)
(* pagination, filtering, sorting and search, POST /listings with the      *)
(* tolerant last_review parsing, GET /health, the two exception handlers   *)
(* and the session-per-request dependency get_db.                          *)
(*                                                                         *)
(* Texts are sequences of one-character strings, so that substring tests,  *)
(* LIKE patterns, lower() and strptime() are computed character by         *)
(* character.  Python / JSON values are tagged records [t |-> tag, v |-> x]*)
(* so that str(v), isinstance(v, date) and truthiness can be told apart.   *)
(***************************************************************************)
EXTENDS Integers, Sequences, FiniteSets, TLC

VARIABLES
    store,   \* the rows of the table listings, in insertion order
    nextId,  \* the id the table gives the next row
    pc,      \* where each client's request is
    req,     \* the request of each client
    args,    \* the validated parameters the endpoint is called with
    sess,    \* the session get_db holds for the request
    new,     \* the id of the object create_listing added (new.id)
    exc,     \* the exception the request raised
    resp     \* the response

vars == <<store, nextId, pc, req, args, sess, new, exc, resp>>

(***************************************************************************)
(* Bounds of the model.                                                    *)
(***************************************************************************)
\* rows the concurrent specification lets POSTs create
MaxStore == 2
\* rows of the table in the pagination specification
MaxRows == 3
\* rows of the table in the filter specification
MaxFilterRows == 1
\* rows the creation specification lets POSTs create
MaxCreated == 1
\* largest page number requested
MaxPage == 2

Clients == {"c1", "c2"}

(***************************************************************************)
(* Values                                                                  *)
(***************************************************************************)
None == [t |-> "none"]
IntV(n) == [t |-> "int", v |-> n]
StrV(s) == [t |-> "str", v |-> s]
DateV(y, m, d) == [t |-> "date", v |-> <<y, m, d>>]

\* Python truthiness of a value: None, 0 and "" are falsy, a date is truthy
Truthy(v) ==
    CASE v.t = "none" -> FALSE
      [] v.t = "int"  -> v.v # 0
      [] v.t = "str"  -> v.v # <<>>
      [] OTHER        -> TRUE

(***************************************************************************)
(* Text                                                                    *)
(***************************************************************************)
UpperChars == <<"A", "B", "C", "D", "E", "H", "S">>
LowerChars == <<"a", "b", "c", "d", "e", "h", "s">>

LowerCh(ch) ==
    IF \E i \in 1..Len(UpperChars) : UpperChars[i] = ch
    THEN LowerChars[CHOOSE i \in 1..Len(UpperChars) : UpperChars[i] = ch]
    ELSE ch

\* str.lower() / SQL lower()
lower(s) == [i \in 1..Len(s) |-> LowerCh(s[i])]

DigitChars == <<"0", "1", "2", "3", "4", "5", "6", "7", "8", "9">>

IsDigit(ch) == \E i \in 1..10 : DigitChars[i] = ch

DigitVal(ch) == (CHOOSE i \in 1..10 : DigitChars[i] = ch) - 1

AllDigits(s) == \A i \in 1..Len(s) : IsDigit(s[i])

\* value of a digit string; a blank counts as nothing (int(" 5") = 5)
RECURSIVE NumVal(_)
NumVal(s) ==
    IF s = <<>> THEN 0
    ELSE LET last == s[Len(s)]
             rest == SubSeq(s, 1, Len(s) - 1)
         IN  IF last = " " THEN NumVal(rest)
             ELSE 10 * NumVal(rest) + DigitVal(last)

\* decimal digits of n, at least w of them (zero padded)
RECURSIVE Digits(_, _)
Digits(n, w) ==
    IF n < 10 /\ w <= 1 THEN <<DigitChars[n + 1]>>
    ELSE Digits(n \div 10, w - 1) \o <<DigitChars[(n % 10) + 1]>>

\* the pieces of s between occurrences of sep
RECURSIVE SplitOn(_, _)
SplitOn(s, sep) ==
    IF \A i \in 1..Len(s) : s[i] # sep THEN <<s>>
    ELSE LET k == CHOOSE i \in 1..Len(s) :
                      s[i] = sep /\ \A j \in 1..(i - 1) : s[j] # sep
         IN  <<SubSeq(s, 1, k - 1)>> \o SplitOn(SubSeq(s, k + 1, Len(s)), sep)

(***************************************************************************)
(* Calendar dates: datetime.date and datetime.strptime                     *)
(***************************************************************************)
IsLeap(y) == y % 4 = 0 /\ (y % 100 # 0 \/ y % 400 = 0)

DaysInMonth(y, m) ==
    IF m = 2 THEN (IF IsLeap(y) THEN 29 ELSE 28)
    ELSE IF m \in {4, 6, 9, 11} THEN 30 ELSE 31

\* datetime.date(y, m, d) raises ValueError outside these ranges
DateOk(y, m, d) ==
    /\ y >= 1 /\ y <= 9999
    /\ m >= 1 /\ m <= 12
    /\ d >= 1 /\ d <= DaysInMonth(y, m)

\* the directive %Y: \d\d\d\d
YearTok(tk) == Len(tk) = 4 /\ AllDigits(tk)

\* the directive %m: 1[0-2]|0[1-9]|[1-9]
MonthTok(tk) ==
    \/ Len(tk) = 2 /\ tk[1] = "1" /\ tk[2] \in {"0", "1", "2"}
    \/ Len(tk) = 2 /\ tk[1] = "0" /\ IsDigit(tk[2]) /\ tk[2] # "0"
    \/ Len(tk) = 1 /\ IsDigit(tk[1]) /\ tk[1] # "0"

\* the directive %d: 3[0-1]|[1-2]\d|0[1-9]|[1-9]| [1-9]
DayTok(tk) ==
    \/ Len(tk) = 2 /\ tk[1] = "3" /\ tk[2] \in {"0", "1"}
    \/ Len(tk) = 2 /\ tk[1] \in {"1", "2"} /\ IsDigit(tk[2])
    \/ Len(tk) = 2 /\ tk[1] \in {"0", " "} /\ IsDigit(tk[2]) /\ tk[2] # "0"
    \/ Len(tk) = 1 /\ IsDigit(tk[1]) /\ tk[1] # "0"

ValueError == [t |-> "error"]

\* the date of three matched tokens, or ValueError when it is no calendar date
MakeDate(ytk, mtk, dtk) ==
    IF YearTok(ytk) /\ MonthTok(mtk) /\ DayTok(dtk)
       /\ DateOk(NumVal(ytk), NumVal(mtk), NumVal(dtk))
    THEN DateV(NumVal(ytk), NumVal(mtk), NumVal(dtk))
    ELSE ValueError

\* a deliberately wrong variant: the slash format read day first
StrptimeUSDayFirst(s) ==
    LET tk == SplitOn(s, "/")
    IN  IF Len(tk) = 3 THEN MakeDate(tk[3], tk[2], tk[1]) ELSE ValueError

\* datetime.strptime(s, '%Y-%m-%d').date()
StrptimeISO(s) ==
    LET tk == SplitOn(s, "-")
    IN  IF Len(tk) = 3 THEN MakeDate(tk[1], tk[2], tk[3]) ELSE ValueError

\* datetime.strptime(s, '%m/%d/%Y').date()
StrptimeUS(s) ==
    LET tk == SplitOn(s, "/")
    IN  IF Len(tk) = 3 THEN MakeDate(tk[3], tk[1], tk[2]) ELSE ValueError

\* date.isoformat(), which is str(date)
IsoFormat(y, m, d) == Digits(y, 4) \o <<"-">> \o Digits(m, 2) \o <<"-">> \o Digits(d, 2)

\* Python's str(v)
PyStr(v) ==
    CASE v.t = "none" -> <<"N", "o", "n", "e">>
      [] v.t = "int"  -> Digits(v.v, 1)
      [] v.t = "str"  -> v.v
      [] OTHER        -> IsoFormat(v.v[1], v.v[2], v.v[3])

Sentinel == <<"0", "0", "0", "0", "-", "0", "0", "-", "0", "0">>

\* ListingSchema.parse_last_review: the normalized value, or the error
\* [t |-> "error", msg |-> <<"Invalid date format: ", s>>]
parse_last_review(v) ==
    IF ~Truthy(v) \/ PyStr(v) = Sentinel THEN None
    ELSE IF v.t = "date" THEN v
    ELSE LET s == PyStr(v)
         IN  IF StrptimeISO(s) # ValueError THEN StrptimeISO(s)
             ELSE IF StrptimeUS(s) # ValueError THEN StrptimeUS(s)
             ELSE [t |-> "error", msg |-> <<"Invalid date format: ", s>>]


(***************************************************************************)
(* Field validators of pydantic (ListingSchema) and of the Query           *)
(* parameters.  A value that is not in the request is Absent.              *)
(***************************************************************************)
Absent == [t |-> "absent"]

TypeError(msg) == [t |-> "error", msg |-> <<msg>>]

IsError(v) == v.t = "error"

\* int: an int is kept, a text of digits is converted, anything else fails
int_validator(v) ==
    CASE v.t = "int" -> v
      [] v.t = "str" /\ v.v # <<>> /\ AllDigits(v.v) -> IntV(NumVal(v.v))
      [] OTHER -> TypeError("value is not a valid integer")

\* float: the prices of the model are whole numbers
float_validator(v) ==
    CASE v.t = "int" -> v
      [] v.t = "str" /\ v.v # <<>> /\ AllDigits(v.v) -> IntV(NumVal(v.v))
      [] OTHER -> TypeError("value is not a valid float")

\* str: a text is kept, a number is coerced to its text
str_validator(v) ==
    CASE v.t = "str" -> v
      [] v.t = "int" -> StrV(Digits(v.v, 1))
      [] OTHER -> TypeError("str type expected")

\* a field declared without Optional (id, name, host_id, host_name), whose
\* type validator gives validated
Required(v, validated) ==
    CASE v = Absent -> TypeError("field required")
      [] v = None   -> TypeError("none is not an allowed value")
      [] OTHER      -> validated

\* a field declared Optional[...]: absent and null both give None
Optional(v, validated) ==
    IF v = Absent \/ v = None THEN None ELSE validated

\* last_review: Optional[datetime.date] behind the pre-validator, which
\* pydantic does not call for a field that is not in the body
LastReviewField(v) ==
    IF v = Absent THEN None ELSE parse_last_review(v)

\* ListingSchema applied to a request body: each field's value or error
BodyFields(body) ==
    [id             |-> Required(body.id, int_validator(body.id)),
     name           |-> Required(body.name, str_validator(body.name)),
     host_id        |-> Required(body.host_id, int_validator(body.host_id)),
     host_name      |-> Required(body.host_name, str_validator(body.host_name)),
     neighbourhood  |-> Optional(body.neighbourhood, str_validator(body.neighbourhood)),
     price          |-> Optional(body.price, float_validator(body.price)),
     last_review    |-> LastReviewField(body.last_review)]

FieldNames == {"id", "name", "host_id", "host_name", "neighbourhood",
               "price", "last_review"}

\* exc.errors(): one entry per field that failed
FieldErrors(fields) ==
    {[loc |-> f, msg |-> fields[f].msg] : f \in {g \in DOMAIN fields : IsError(fields[g])}}

DefaultPage == 1
DefaultLimit == 20
LimitMax == 100

\* page: int = Query(1, ge=1)
PageParam(v) ==
    IF v = Absent THEN IntV(DefaultPage)
    ELSE LET n == int_validator(v)
         IN  IF IsError(n) THEN n
             ELSE IF n.v < 1
                  THEN TypeError("ensure this value is greater than or equal to 1")
             ELSE n

\* a deliberately wrong variant: an out-of-range limit is clamped into the range
LimitParamClamped(v) ==
    IF v = Absent THEN IntV(DefaultLimit)
    ELSE LET n == int_validator(v)
         IN  IF IsError(n) THEN n
             ELSE IF n.v < 1 THEN IntV(1)
             ELSE IF n.v > LimitMax THEN IntV(LimitMax)
             ELSE n

\* limit: int = Query(20, ge=1, le=100)
LimitParam(v) ==
    IF v = Absent THEN IntV(DefaultLimit)
    ELSE LET n == int_validator(v)
         IN  IF IsError(n) THEN n
             ELSE IF n.v < 1
                  THEN TypeError("ensure this value is greater than or equal to 1")
             ELSE IF n.v > LimitMax
                  THEN TypeError("ensure this value is less than or equal to 100")
             ELSE n

\* the parameters of read_listings after FastAPI's validation
QueryFields(q) ==
    [page          |-> PageParam(q.page),
     limit         |-> LimitParam(q.limit),
     neighbourhood |-> Optional(q.neighbourhood, str_validator(q.neighbourhood)),
     price_lte     |-> Optional(q.price_lte, float_validator(q.price_lte)),
     search        |-> Optional(q.search, str_validator(q.search)),
     sort_by       |-> IF q.sort_by = Absent THEN StrV("price") ELSE q.sort_by,
     order         |-> IF q.order = Absent THEN StrV(<<"a", "s", "c">>) ELSE q.order]

(***************************************************************************)
(* The listings table and the statement read_listings builds               *)
(***************************************************************************)
\* the columns of Listing the model carries; the other eleven are optional
\* and pass through create and read untouched
Row(id, f) ==
    [id            |-> IntV(id),
     name          |-> f.name,
     host_id       |-> f.host_id,
     host_name     |-> f.host_name,
     neighbourhood |-> f.neighbourhood,
     price         |-> f.price,
     last_review   |-> f.last_review]

\* SQL LIKE: % matches any run of characters, _ any one character, every
\* other character itself (the texts of the model hold no escape character)
RECURSIVE LikeMatch(_, _)
LikeMatch(s, p) ==
    IF p = <<>> THEN s = <<>>
    ELSE IF Head(p) = "%"
         THEN LikeMatch(s, Tail(p)) \/ (s # <<>> /\ LikeMatch(Tail(s), p))
    ELSE /\ s # <<>>
         /\ (Head(p) = "_" \/ Head(p) = Head(s))
         /\ LikeMatch(Tail(s), Tail(p))

\* column.ilike(pattern): lower(column) LIKE lower(pattern); NULL matches nothing
ILike(col, pattern) == col.t = "str" /\ LikeMatch(lower(col.v), lower(pattern))

\* Listing.neighbourhood == neighbourhood
WhereNeighbourhood(row, text) ==
    row.neighbourhood.t = "str" /\ row.neighbourhood.v = text

\* Listing.price <= price_lte
WherePrice(row, bound) == row.price.t = "int" /\ row.price.v <= bound

\* Listing.name.ilike(like_pattern) | Listing.neighbourhood.ilike(like_pattern)
WhereSearch(row, text) ==
    LET like_pattern == <<"%">> \o text \o <<"%">>
    IN  ILike(row.name, like_pattern) \/ ILike(row.neighbourhood, like_pattern)

\* the WHERE clause of the statement: one conjunct per filter that was added
Selected(row, a) ==
    /\ Truthy(a.neighbourhood) => WhereNeighbourhood(row, a.neighbourhood.v)
    /\ a.price_lte # None => WherePrice(row, a.price_lte.v)
    /\ Truthy(a.search) => WhereSearch(row, a.search.v)

ListingColumns ==
    {"id", "name", "host_id", "host_name", "neighbourhood_group",
     "neighbourhood", "latitude", "longitude", "room_type", "price",
     "minimum_nights", "number_of_reviews", "last_review",
     "reviews_per_month", "calculated_host_listings_count",
     "availability_365", "number_of_reviews_ltm", "license"}

\* attributes of the class Listing that are no columns
ListingOtherAttributes == {"__tablename__", "metadata"}

\* getattr(Listing, sort_by, Listing.price)
SortAttribute(sort_by) ==
    IF sort_by \in ListingColumns THEN [column |-> TRUE, name |-> sort_by]
    ELSE IF sort_by \in ListingOtherAttributes THEN [column |-> FALSE, name |-> sort_by]
    ELSE [column |-> TRUE, name |-> "price"]

\* order.lower() == "desc"
Descending(order) == lower(order) = <<"d", "e", "s", "c">>

\* MySQL's ordering of the numeric columns: NULL sorts before every number
ValLess(a, b) ==
    IF a.t = "none" THEN b.t # "none"
    ELSE IF b.t = "none" THEN FALSE
    ELSE a.v < b.v

Min(a, b) == IF a < b THEN a ELSE b

\* the sequences that hold every row of the set rows exactly once
Orderings(rows) ==
    {s \in [1..Cardinality(rows) -> rows] :
        \A i, j \in 1..Cardinality(rows) : i # j => s[i] # s[j]}

\* ORDER BY col ASC | DESC: rows that tie may come in any order
OrderedBy(s, col, desc) ==
    \A i, j \in 1..Len(s) :
        i < j => IF desc THEN ~ValLess(s[i][col], s[j][col])
                         ELSE ~ValLess(s[j][col], s[i][col])

\* a deliberately wrong variant: the offset of page p is p * limit
SkipOffByOne(page, limit) == page * limit

\* skip = (page - 1) * limit
Skip(page, limit) == (page - 1) * limit

\* stmt.offset(skip).limit(limit) applied to an ordered result
Slice(s, skip, limit) == SubSeq(s, skip + 1, Min(Len(s), skip + limit))

\* the results db.execute(stmt) may give for validated parameters a
QueryResults(a) ==
    LET rows == {store[i] : i \in {k \in 1..Len(store) : Selected(store[k], a)}}
        col  == SortAttribute(a.sort_by.v).name
    IN  {Slice(s, Skip(a.page.v, a.limit.v), a.limit.v) :
            s \in {o \in Orderings(rows) : OrderedBy(o, col, Descending(a.order.v))}}

\* ListingSchema.from_orm(row): the response model of both endpoints
ToSchema(row) == [row EXCEPT !.last_review = parse_last_review(row.last_review)]

(***************************************************************************)
(* Requests and responses                                                  *)
(***************************************************************************)
NoQuery ==
    [page |-> Absent, limit |-> Absent, neighbourhood |-> Absent,
     price_lte |-> Absent, search |-> Absent, sort_by |-> Absent,
     order |-> Absent]

NoBody ==
    [id |-> Absent, name |-> Absent, host_id |-> Absent, host_name |-> Absent,
     neighbourhood |-> Absent, price |-> Absent, last_review |-> Absent]

Get(q) == [kind |-> "GET", q |-> q, body |-> NoBody]
Post(body) == [kind |-> "POST", q |-> NoQuery, body |-> body]
Health == [kind |-> "HEALTH", q |-> NoQuery, body |-> NoBody]

NoReq == [kind |-> "none", q |-> NoQuery, body |-> NoBody]
NoArgs == [none |-> None]
\* no response yet; a body is a record: the array of a GET is its field items
NoResp == [status |-> 0, body |-> [none |-> TRUE]]

\* validation_exception_handler(request, exc)
ValidationResponse(errors, body) ==
    [status |-> 400, body |-> [detail |-> errors, body |-> body]]

\* internal_exception_handler(request, exc)
InternalErrorResponse(e) ==
    [status |-> 500, body |-> [detail |-> "Internal Server Error"]]

\* what FastAPI validates for the endpoint of the request
ValidatedFields(rq) ==
    IF rq.kind = "GET" THEN QueryFields(rq.q)
    ELSE IF rq.kind = "POST" THEN BodyFields(rq.body)
    ELSE NoArgs

\* a deliberately wrong variant: the session is left open when the request ended in an error
SessionAfterLeaky(status) == IF status >= 400 THEN "open" ELSE "closed"

\* get_db: leaving "async with AsyncSessionLocal() as session" closes it
SessionAfter(status) == "closed"

(***************************************************************************)
(* Actions: one request per client at a time, one step per await           *)
(***************************************************************************)
\* a request arrives
Receive(c, rq) ==
    /\ pc[c] = "idle"
    /\ pc' = [pc EXCEPT ![c] = "received"]
    /\ req' = [req EXCEPT ![c] = rq]
    /\ UNCHANGED <<store, nextId, args, sess, new, exc, resp>>

\* FastAPI solves the dependencies of the endpoint: get_db opens the session,
\* the parameters and the body are validated, and a RequestValidationError
\* is answered by validation_exception_handler
SolveDependencies(c) ==
    /\ pc[c] = "received"
    /\ LET fields == ValidatedFields(req[c])
           errors == FieldErrors(fields)
       IN  /\ sess' = [sess EXCEPT ![c] = IF req[c].kind = "HEALTH" THEN @ ELSE "open"]
           /\ IF errors # {}
              THEN /\ exc' = [exc EXCEPT ![c] = "RequestValidationError"]
                   /\ resp' = [resp EXCEPT ![c] = ValidationResponse(errors, req[c].body)]
                   /\ pc' = [pc EXCEPT ![c] = "answered"]
                   /\ UNCHANGED args
              ELSE /\ args' = [args EXCEPT ![c] = fields]
                   /\ pc' = [pc EXCEPT ![c] = "handler"]
                   /\ UNCHANGED <<exc, resp>>
    /\ UNCHANGED <<store, nextId, req, new>>

\* an exception leaves the endpoint and internal_exception_handler answers
Raise(c, e) ==
    /\ exc' = [exc EXCEPT ![c] = e]
    /\ resp' = [resp EXCEPT ![c] = InternalErrorResponse(e)]
    /\ pc' = [pc EXCEPT ![c] = "answered"]

\* read_listings: the statement is built and executed; col.asc() raises
\* AttributeError on an attribute that is no column, db.execute may fail
read_listings(c) ==
    /\ pc[c] = "handler"
    /\ req[c].kind = "GET"
    /\ \/ /\ SortAttribute(args[c].sort_by.v).column
          /\ \E result \in QueryResults(args[c]) :
                resp' = [resp EXCEPT ![c] =
                            [status |-> 200,
                             body |-> [items |-> [i \in 1..Len(result) |->
                                                      ToSchema(result[i])]]]]
          /\ pc' = [pc EXCEPT ![c] = "answered"]
          /\ UNCHANGED exc
       \/ /\ SortAttribute(args[c].sort_by.v).column
          /\ Raise(c, "StoreError")
       \/ /\ ~SortAttribute(args[c].sort_by.v).column
          /\ Raise(c, "AttributeError")
    /\ UNCHANGED <<store, nextId, req, args, sess, new>>

\* create_listing up to "await db.commit()": the row is inserted under the
\* id the table assigns, or the commit fails and nothing is inserted
create_listing(c, cap) ==
    /\ pc[c] = "handler"
    /\ req[c].kind = "POST"
    /\ \/ /\ Len(store) < cap
          /\ store' = Append(store, Row(nextId, args[c]))
          /\ nextId' = nextId + 1
          /\ new' = [new EXCEPT ![c] = IntV(nextId)]
          /\ pc' = [pc EXCEPT ![c] = "refresh"]
          /\ UNCHANGED <<exc, resp>>
       \/ /\ Raise(c, "StoreError")
          /\ UNCHANGED <<store, nextId, new>>
    /\ UNCHANGED <<req, args, sess>>

\* create_listing from "await db.refresh(new)": the row is read back and
\* returned, or the refresh fails
create_listing_refresh(c) ==
    /\ pc[c] = "refresh"
    /\ \/ /\ \E i \in 1..Len(store) :
               /\ store[i].id = new[c]
               /\ resp' = [resp EXCEPT ![c] =
                              [status |-> 201, body |-> ToSchema(store[i])]]
          /\ pc' = [pc EXCEPT ![c] = "answered"]
          /\ UNCHANGED exc
       \/ Raise(c, "StoreError")
    /\ UNCHANGED <<store, nextId, req, args, sess, new>>

\* health
health(c) ==
    /\ pc[c] = "handler"
    /\ req[c].kind = "HEALTH"
    /\ resp' = [resp EXCEPT ![c] = [status |-> 200, body |-> [status |-> "ok"]]]
    /\ pc' = [pc EXCEPT ![c] = "answered"]
    /\ UNCHANGED <<store, nextId, req, args, sess, new, exc>>

\* the response is sent and the dependencies are left: get_db closes the
\* session; the client may send its next request
Finish(c) ==
    /\ pc[c] = "answered"
    /\ sess' = [sess EXCEPT ![c] = IF @ = "open" THEN SessionAfter(resp[c].status) ELSE @]
    /\ pc' = [pc EXCEPT ![c] = "idle"]
    /\ req' = [req EXCEPT ![c] = NoReq]
    /\ args' = [args EXCEPT ![c] = NoArgs]
    /\ new' = [new EXCEPT ![c] = None]
    /\ exc' = [exc EXCEPT ![c] = "none"]
    /\ resp' = [resp EXCEPT ![c] = NoResp]
    /\ UNCHANGED <<store, nextId>>

\* every client idle over the table rows
InitOver(rows) ==
    /\ store = rows
    /\ nextId = Len(rows) + 1
    /\ pc = [c \in Clients |-> "idle"]
    /\ req = [c \in Clients |-> NoReq]
    /\ args = [c \in Clients |-> NoArgs]
    /\ sess = [c \in Clients |-> "closed"]
    /\ new = [c \in Clients |-> None]
    /\ exc = [c \in Clients |-> "none"]
    /\ resp = [c \in Clients |-> NoResp]

(***************************************************************************)
(* Spec: two clients send requests concurrently to an empty table          *)
(***************************************************************************)
TextAb == <<"A", "b">>
TextH == <<"h">>
NotADate == <<"n", "o", "t", "-", "a", "-", "d", "a", "t", "e">>

\* a body with every required field; its id is the id of the first row
FullBody ==
    [NoBody EXCEPT !.id = IntV(1), !.name = StrV(TextAb),
                   !.host_id = IntV(5), !.host_name = StrV(TextH)]

Bodies ==
    {FullBody,
     [FullBody EXCEPT !.price = IntV(2)],
     [FullBody EXCEPT !.id = Absent],
     [FullBody EXCEPT !.name = Absent],
     [FullBody EXCEPT !.host_id = StrV(<<"x">>)],
     [FullBody EXCEPT !.last_review = StrV(NotADate)]}

Queries ==
    {NoQuery,
     [NoQuery EXCEPT !.page = StrV(<<"0">>)],
     [NoQuery EXCEPT !.limit = StrV(Digits(LimitMax + 1, 1))],
     [NoQuery EXCEPT !.limit = StrV(<<"x">>)],
     [NoQuery EXCEPT !.sort_by = StrV("__tablename__")]}

Requests == {Get(q) : q \in Queries} \cup {Post(b) : b \in Bodies} \cup {Health}

Init == InitOver(<<>>)

Next ==
    \E c \in Clients :
        \/ \E rq \in Requests : Receive(c, rq)
        \/ SolveDependencies(c)
        \/ read_listings(c)
        \/ create_listing(c, MaxStore)
        \/ create_listing_refresh(c)
        \/ health(c)
        \/ Finish(c)

Spec == Init /\ [][Next]_vars

\* the event loop runs every coroutine that can run; requests keep arriving
\* only if clients send them
Progress(c) ==
    \/ SolveDependencies(c)
    \/ read_listings(c)
    \/ create_listing(c, MaxStore)
    \/ create_listing_refresh(c)
    \/ health(c)
    \/ Finish(c)

FairSpec == Spec /\ \A c \in Clients : WF_vars(Progress(c))

(***************************************************************************)
(* Properties of Spec                                                      *)
(***************************************************************************)
Answered(c) == pc[c] = "answered"

RowIds == {store[i].id : i \in 1..Len(store)}

\* a text that is no number
NotNumeric(v) == v.t = "str" /\ (v.v = <<>> \/ ~AllDigits(v.v))

\* the number a query parameter gives, when it gives one
Below(v, n) == v.t = "str" /\ ~NotNumeric(v) /\ NumVal(v.v) < n
Above(v, n) == v.t = "str" /\ ~NotNumeric(v) /\ NumVal(v.v) > n

\* the fields of a request that the interface rejects: a required field
\* that is missing, a field of the wrong primitive type, a last_review text
\* that is no date, a page below 1, a limit outside [1, 100]
RejectedFields(rq) ==
    IF rq.kind = "POST"
    THEN {f \in {"name", "host_id", "host_name"} : rq.body[f] = Absent}
         \cup {f \in {"host_id", "price"} : NotNumeric(rq.body[f])}
         \cup {f \in {"last_review"} : rq.body[f] = StrV(NotADate)}
    ELSE IF rq.kind = "GET"
    THEN {f \in {"page", "limit"} : NotNumeric(rq.q[f]) \/ Below(rq.q[f], 1)}
         \cup {f \in {"limit"} : Above(rq.q[f], LimitMax)}
    ELSE {}

\* C1: a POST whose body carries every required field with valid types and
\* no id is answered 201 (unless the store fails) with the new row, whose id
\* is an id of the table
C1_PostWithoutIdCreates ==
    \A c \in Clients :
        (/\ Answered(c)
         /\ req[c].kind = "POST"
         /\ req[c].body.id = Absent
         /\ RejectedFields(req[c]) = {}
         /\ exc[c] # "StoreError")
        => /\ resp[c].status = 201
           /\ resp[c].body.id \in RowIds

\* C7: a request that fails validation is answered 400 with an error for
\* each rejected field, and no step of a request that is rejected or
\* answered 400 changes the table
C7_RejectedWithoutStoreAccess ==
    /\ [](\A c \in Clients :
            (Answered(c) /\ RejectedFields(req[c]) # {})
            => /\ resp[c].status = 400
               /\ \A f \in RejectedFields(req[c]) :
                     \E e \in resp[c].body.detail : e.loc = f)
    /\ [][\A c \in Clients :
            (/\ pc'[c] # pc[c]
             /\ \/ RejectedFields(req[c]) # {}
                \/ resp[c].status = 400
                \/ resp'[c].status = 400)
            => (store' = store /\ nextId' = nextId)]_vars

\* C7 witness: a POST with last_review "not-a-date" and a GET with a limit
\* above 100 have both been answered 400
C7_Witness ==
    \E c, d \in Clients :
        /\ Answered(c) /\ req[c].kind = "POST"
        /\ req[c].body.last_review = StrV(NotADate)
        /\ resp[c].status = 400
        /\ Answered(d) /\ req[d].kind = "GET"
        /\ Above(req[d].q.limit, LimitMax)
        /\ resp[d].status = 400

\* C8: a request on which the store failed is answered 500 with the fixed
\* generic body, and a POST on which it failed has left no row in the table
C8_FailedPostLeavesNoRow ==
    \A c \in Clients :
        (Answered(c) /\ exc[c] = "StoreError")
        => /\ resp[c].status = 500
           /\ resp[c].body = [detail |-> "Internal Server Error"]
           /\ req[c].kind = "POST" => new[c] \notin RowIds

\* C9: every step keeps the rows there are, with their ids and values, adds
\* at most one row, under a fresh id the table assigns, and only as a step of
\* a POST; and a POST that was not answered 201 has added no row
C9_AppendOnly ==
    [][/\ Len(store') >= Len(store)
       /\ Len(store') <= Len(store) + 1
       /\ \A i \in 1..Len(store) : store'[i] = store[i]
       /\ \A i, j \in 1..Len(store') : i # j => store'[i].id # store'[j].id
       /\ Len(store') = Len(store) + 1 =>
             /\ store'[Len(store')].id = IntV(nextId)
             /\ \E c \in Clients :
                   /\ req[c].kind = "POST" /\ pc[c] # pc'[c]
                   /\ store'[Len(store')] = Row(nextId, BodyFields(req[c].body))
       /\ \A c \in Clients :
             (pc'[c] = "answered" /\ req'[c].kind = "POST" /\ resp'[c].status # 201)
             => new'[c] \notin {store'[i].id : i \in 1..Len(store')}]_vars

\* C10: a client without a request in progress holds no open session, and
\* every session that is opened is closed later
C10_SessionsReleased ==
    /\ [](\A c \in Clients : pc[c] = "idle" => sess[c] = "closed")
    /\ \A c \in Clients : (sess[c] = "open") ~> (sess[c] = "closed")

\* C10 witness: sessions are open for a request answered 400 and for a
\* request answered 500 at once
C10_Witness ==
    \E c, d \in Clients :
        /\ sess[c] = "open" /\ Answered(c) /\ resp[c].status = 400
        /\ sess[d] = "open" /\ Answered(d) /\ resp[d].status = 500

(***************************************************************************)
(* SpecPage: one client reads a table of up to MaxRows rows page by page   *)
(***************************************************************************)
FullFields == BodyFields(FullBody)

PagePrices == {None, IntV(0), IntV(1)}

\* the tables of up to MaxRows rows with ids 1, 2, ... and these prices
PageStores ==
    UNION {{[i \in 1..n |-> Row(i, [FullFields EXCEPT !.price = prices[i]])] :
                prices \in [1..n -> PagePrices]} : n \in 0..MaxRows}

PageQueries ==
    {[NoQuery EXCEPT !.page = StrV(Digits(p, 1)), !.limit = StrV(Digits(l, 1)),
                     !.price_lte = b, !.sort_by = k, !.order = o] :
        p \in 0..MaxPage,
        l \in {0, 1, 2, LimitMax, LimitMax + 1},
        b \in {Absent, StrV(<<"0">>)},
        k \in {Absent, StrV("id"), StrV("nonexistent_field"), StrV("__tablename__")},
        o \in {Absent, StrV(<<"D", "E", "S", "C">>), StrV(<<"u", "p">>)}}

PageRequests == {Get(q) : q \in PageQueries}

InitPage == \E rows \in PageStores : InitOver(rows)

NextPage ==
    \/ \E rq \in PageRequests : Receive("c1", rq)
    \/ SolveDependencies("c1")
    \/ read_listings("c1")
    \/ Finish("c1")

SpecPage == InitPage /\ [][NextPage]_vars

(***************************************************************************)
(* Properties of SpecPage                                                  *)
(***************************************************************************)
\* the rows a query with only the price bound b selects
PriceFiltered(b) ==
    {store[i] : i \in {k \in 1..Len(store) :
        b = Absent \/ (store[k].price # None /\ store[k].price.v <= NumVal(b.v))}}

\* the column a query orders by: the field named, price when none is named
OrderColumn(k) ==
    IF k # Absent /\ k.v \in DOMAIN FullFields THEN k.v ELSE "price"

\* the orders of the rows the query q may be answered from: ascending unless
\* order is "desc" in any case, NULL lowest
FilteredOrdered(q) ==
    {s \in Orderings(PriceFiltered(q.price_lte)) :
        \A i, j \in 1..Len(s) :
            i < j =>
                LET lo == IF q.order = StrV(<<"D", "E", "S", "C">>) THEN s[j] ELSE s[i]
                    hi == IF q.order = StrV(<<"D", "E", "S", "C">>) THEN s[i] ELSE s[j]
                IN  \/ lo[OrderColumn(q.sort_by)] = None
                    \/ /\ hi[OrderColumn(q.sort_by)] # None
                       /\ lo[OrderColumn(q.sort_by)].v <= hi[OrderColumn(q.sort_by)].v}

\* the offsets page p of limit l covers
Offsets(p, l) == ((p - 1) * l)..(p * l - 1)

\* items holds exactly the elements of s at the offsets of page p
IsPageOf(items, s, p, l) ==
    /\ \A k \in 1..Len(items) :
          (p - 1) * l + k <= Len(s) /\ items[k] = s[(p - 1) * l + k]
    /\ \A o \in Offsets(p, l) : o < Len(s) => o - (p - 1) * l < Len(items)

\* C5: a GET answered 200 returns at most limit rows, exactly those at the
\* offsets [(page-1)*limit, page*limit) of the filtered, ordered rows, and
\* the offsets of different pages are disjoint
C5_PageIsOffsetRange ==
    Answered("c1") /\ req["c1"].kind = "GET" /\ resp["c1"].status = 200 =>
        LET q == req["c1"].q
            p == NumVal(q.page.v)
            l == NumVal(q.limit.v)
            items == resp["c1"].body.items
        IN  /\ p >= 1 /\ l >= 1 /\ l <= LimitMax
            /\ Len(items) <= l
            /\ \E s \in FilteredOrdered(q) : IsPageOf(items, s, p, l)
            /\ \A p2 \in 1..(MaxPage + 1) :
                  p2 # p => Offsets(p, l) \cap Offsets(p2, l) = {}

\* C5 witness: the second page of two rows, out of three, holds the one row
\* that is left
C5_Witness ==
    /\ Answered("c1") /\ resp["c1"].status = 200
    /\ req["c1"].q.page = StrV(<<"2">>) /\ req["c1"].q.limit = StrV(<<"2">>)
    /\ req["c1"].q.sort_by = StrV("id")
    /\ Len(store) = 3
    /\ resp["c1"].body.items = <<store[3]>>

\* C2: a GET whose sort_by names no field of the listing record, on which
\* the store did not fail, is answered 200 with the rows in an order that
\* sort_by = "price" gives
C2_UnknownSortFallsBack ==
    (/\ Answered("c1") /\ req["c1"].kind = "GET"
     /\ req["c1"].q.sort_by # Absent
     /\ req["c1"].q.sort_by.v \notin ListingColumns
     /\ RejectedFields(req["c1"]) = {}
     /\ exc["c1"] # "StoreError")
    => /\ resp["c1"].status = 200
       /\ \E s \in FilteredOrdered([req["c1"].q EXCEPT !.sort_by = StrV("price")]) :
             IsPageOf(resp["c1"].body.items, s,
                      NumVal(req["c1"].q.page.v), NumVal(req["c1"].q.limit.v))

(***************************************************************************)
(* SpecFilter: one client filters and searches a table of up to            *)
(* MaxFilterRows rows                                                      *)
(***************************************************************************)
TextA == <<"a">>
TextB == <<"b">>
TextUpperB == <<"B">>

FilterNames == {StrV(TextAb), StrV(TextB)}
FilterNeighbourhoods == {None, StrV(TextA), StrV(TextAb)}
FilterPrices == {None, IntV(0), IntV(2)}

FilterStores ==
    UNION {{[i \in 1..n |-> Row(i, [FullFields EXCEPT !.name = f[i][1],
                                                      !.neighbourhood = f[i][2],
                                                      !.price = f[i][3]])] :
                f \in [1..n -> FilterNames \X FilterNeighbourhoods \X FilterPrices]} :
           n \in 0..MaxFilterRows}

FilterQueries ==
    {[NoQuery EXCEPT !.neighbourhood = n, !.price_lte = b, !.search = t] :
        n \in {Absent, StrV(<<>>), StrV(TextA)},
        b \in {Absent, StrV(<<"0">>), StrV(<<"1">>)},
        t \in {Absent, StrV(<<>>), StrV(TextUpperB), StrV(<<"_">>), StrV(<<"a", "%">>)}}

FilterRequests == {Get(q) : q \in FilterQueries}

InitFilter == \E rows \in FilterStores : InitOver(rows)

NextFilter ==
    \/ \E rq \in FilterRequests : Receive("c1", rq)
    \/ SolveDependencies("c1")
    \/ read_listings("c1")
    \/ Finish("c1")

SpecFilter == InitFilter /\ [][NextFilter]_vars

(***************************************************************************)
(* Properties of SpecFilter                                                *)
(***************************************************************************)
\* sub occurs in s as a run of consecutive characters
Contains(s, sub) ==
    \E i \in 1..(Len(s) + 1) :
        i + Len(sub) - 1 <= Len(s) /\ SubSeq(s, i, i + Len(sub) - 1) = sub

\* the column holds a text that contains the search text, whatever the case
ContainsText(col, text) == col # None /\ Contains(lower(col.v), lower(text))

\* a text parameter that was given and is not empty
Supplied(v) == v # Absent /\ v.v # <<>>

ReturnedIds == {resp["c1"].body.items[i].id : i \in 1..Len(resp["c1"].body.items)}

\* C3: a GET with only a non-empty search returns exactly the rows whose
\* name or neighbourhood contains the search text, read literally and
\* compared without regard to case
C3_SearchIsLiteralSubstring ==
    (/\ Answered("c1") /\ resp["c1"].status = 200
     /\ Supplied(req["c1"].q.search)
     /\ req["c1"].q.neighbourhood = Absent
     /\ req["c1"].q.price_lte = Absent)
    => ReturnedIds =
          {r.id : r \in {x \in {store[i] : i \in 1..Len(store)} :
              \/ ContainsText(x.name, req["c1"].q.search.v)
              \/ ContainsText(x.neighbourhood, req["c1"].q.search.v)}}

\* C4: a GET returns exactly the rows that satisfy every filter supplied:
\* neighbourhood equal to the text, price present and at most the bound,
\* name or neighbourhood containing the search text
C4_FiltersConjoin ==
    (Answered("c1") /\ resp["c1"].status = 200)
    => ReturnedIds =
          {r.id : r \in {x \in {store[i] : i \in 1..Len(store)} :
              /\ Supplied(req["c1"].q.neighbourhood)
                    => x.neighbourhood = req["c1"].q.neighbourhood
              /\ req["c1"].q.price_lte # Absent
                    => (x.price # None
                        /\ x.price.v <= NumVal(req["c1"].q.price_lte.v))
              /\ Supplied(req["c1"].q.search)
                    => \/ ContainsText(x.name, req["c1"].q.search.v)
                       \/ ContainsText(x.neighbourhood, req["c1"].q.search.v)}}

(***************************************************************************)
(* SpecCreate: one client posts listings with every kind of last_review    *)
(***************************************************************************)
GridYears == {0, 2023, 2024}
GridMonths == {2, 3, 13}
GridDays == {0, 15, 29, 31}

\* year-month-day and month/day/year, month and day in w or more digits
IsoText(y, m, d, w) ==
    Digits(y, 4) \o <<"-">> \o Digits(m, w) \o <<"-">> \o Digits(d, w)
UsText(y, m, d, w) ==
    Digits(m, w) \o <<"/">> \o Digits(d, w) \o <<"/">> \o Digits(y, 4)

LastReviewInputs ==
    {Absent, None, IntV(0), IntV(5), StrV(<<>>), StrV(Sentinel), StrV(NotADate)}
    \cup {StrV(IsoText(y, m, d, w)) :
            y \in GridYears, m \in GridMonths, d \in GridDays, w \in {1, 2}}
    \cup {StrV(UsText(y, m, d, w)) :
            y \in GridYears, m \in GridMonths, d \in GridDays, w \in {1, 2}}

CreateBodies == {[FullBody EXCEPT !.last_review = v] : v \in LastReviewInputs}

CreateRequests == {Post(b) : b \in CreateBodies}

InitCreate == InitOver(<<>>)

NextCreate ==
    \/ \E rq \in CreateRequests : Receive("c1", rq)
    \/ SolveDependencies("c1")
    \/ create_listing("c1", MaxCreated)
    \/ create_listing_refresh("c1")
    \/ Finish("c1")

SpecCreate == InitCreate /\ [][NextCreate]_vars

(***************************************************************************)
(* Properties of SpecCreate                                                *)
(***************************************************************************)
MonthLengths == <<31, 28, 31, 30, 31, 30, 31, 31, 30, 31, 30, 31>>

\* the calendar dates whose year, month and day are numbers of the grid
CalendarDates ==
    {dt \in (GridYears \ {0}) \X (GridMonths \cap 1..12) \X (GridDays \cap 1..31) :
        \/ dt[3] <= MonthLengths[dt[2]]
        \/ /\ dt[2] = 2 /\ dt[3] = 29
           /\ dt[1] % 4 = 0 /\ (dt[1] % 100 # 0 \/ dt[1] % 400 = 0)}

\* the calendar dates a text gives when it is read as year-month-day, and
\* when it is read as month/day/year
ReadAsIso(s) ==
    {dt \in CalendarDates : \E w1, w2 \in {1, 2} :
        s = Digits(dt[1], 4) \o <<"-">> \o Digits(dt[2], w1) \o <<"-">> \o Digits(dt[3], w2)}
ReadAsUs(s) ==
    {dt \in CalendarDates : \E w1, w2 \in {1, 2} :
        s = Digits(dt[2], w1) \o <<"/">> \o Digits(dt[3], w2) \o <<"/">> \o Digits(dt[1], 4)}

\* the text a value that is no text is read as
AsText(v) == IF v.t = "int" THEN Digits(v.v, 1) ELSE v.v

\* what the normalization gives for v when the values in noDate give no
\* date: "error" stands for the format error
Normalized(v, noDate) ==
    IF v \in noDate THEN None
    ELSE IF v.t = "date" THEN v
    ELSE IF ReadAsIso(AsText(v)) # {}
         THEN LET dt == CHOOSE x \in ReadAsIso(AsText(v)) : TRUE
              IN  DateV(dt[1], dt[2], dt[3])
    ELSE IF ReadAsUs(AsText(v)) # {}
         THEN LET dt == CHOOSE x \in ReadAsUs(AsText(v)) : TRUE
              IN  DateV(dt[1], dt[2], dt[3])
    ELSE StrV("error")

\* every POST that has been answered, and on which the store did not fail,
\* was answered as the normalization says: 400 with an error of last_review
\* that names the text, or 201 with the normalized date in the row that was
\* stored and in the row that is returned
NormalizedAs(noDate) ==
    (Answered("c1") /\ exc["c1"] # "StoreError") =>
        LET v == req["c1"].body.last_review
            n == Normalized(v, noDate)
        IN  IF n = StrV("error")
            THEN /\ resp["c1"].status = 400
                 /\ \E e \in resp["c1"].body.detail :
                       e.loc = "last_review" /\ e.msg[2] = AsText(v)
            ELSE /\ resp["c1"].status = 201
                 /\ resp["c1"].body.last_review = n
                 /\ \E i \in 1..Len(store) :
                       store[i].id = new["c1"] /\ store[i].last_review = n

\* the values the specification says give no date: absent, empty, the sentinel
NoDateValues == {Absent, None, StrV(<<>>), StrV(Sentinel)}

\* C6 as stated: absent, empty and "0000-00-00" give no date, every other
\* value is read as text, as year-month-day first and month/day/year second,
\* and a text that is neither fails with an error naming it
C6_NormalizationAsStated == NormalizedAs(NoDateValues)

\* C6 as amended: the number 0 gives no date as well
C6_Normalization == NormalizedAs(NoDateValues \cup {IntV(0)})

\* C6 witness: "03/15/2023" has been stored as the date 2023-03-15 and
\* returned as that date
C6_Witness ==
    /\ Answered("c1") /\ resp["c1"].status = 201
    /\ req["c1"].body.last_review =
          StrV(<<"0", "3", "/", "1", "5", "/", "2", "0", "2", "3">>)
    /\ resp["c1"].body.last_review = DateV(2023, 3, 15)
    /\ StrV(<<"2", "0", "2", "3", "-", "0", "3", "-", "1", "5">>) \in LastReviewInputs

=============================================================================
